---- MODULE Spec2Model ----
(***************************************************************************)
(* djquickstart: the `project` command of src/djquickstart/cli.py and its  *)
(* two settings patchers, add_app_to_settings and fix_project_references.  *)
(*                                                                         *)
(* Texts (file contents, names) are sequences of one-character strings, so *)
(* that substring tests, str.replace, splitlines and the regular           *)
(* expressions act on characters as they do in the program.                *)
(***************************************************************************)
EXTENDS Integers, Sequences, FiniteSets, TLC

VARIABLES
    pc,            \* position of the run inside project() / of the driver
    project_name,  \* argument PROJECT_NAME (display name)
    app_name,      \* argument APP_NAME
    preset,        \* option --preset
    install,       \* flag --install
    presets,       \* PRESETS_DIR: preset name -> the files of that preset
    root,          \* project_root: [exists, files]
    root0,         \* project_root as it was when the command started
    calls,         \* subprocess.run invocations so far: <<[cmd, outcome]>>
    exit_status,   \* -1 while running, then the process exit status
    out,           \* click.echo messages so far
    secret,        \* the value get_random_secret_key() returned (<<>> before)
    stmts,         \* how the patched settings text was put together
    passes         \* number of patcher calls made on the settings file

vars == <<pc, project_name, app_name, preset, install, presets, root, root0,
          calls, exit_status, out, secret, stmts, passes>>

----------------------------------------------------------------------------
(* Bounds of the model.                                                    *)

MaxStmts == 3      \* statements in a settings text given to the reference fixer
MaxLines == 4      \* lines in a settings text given to the app registrar
MaxPasses == 2     \* repeated calls of a patcher on the same file
MaxEnvSegs == 2    \* segments of an environment template

----------------------------------------------------------------------------
(* Characters and literals of the program.                                 *)

DQ == "\""
SQ == "'"
NL == "\n"
Quotes == {DQ, SQ}
Spaces == {" ", "\t", NL}

KW_ROOT == <<"R", "O", "O", "T", "_", "U", "R", "L", "C", "O", "N", "F">>
KW_WSGI == <<"W", "S", "G", "I", "_", "A", "P", "P", "L", "I", "C", "A", "T", "I", "O", "N">>
SUF_URLS == <<".", "u", "r", "l", "s">>
SUF_WSGI == <<".", "w", "s", "g", "i", ".", "a", "p", "p", "l", "i", "c", "a", "t", "i", "o", "n">>
MARKER == <<"I", "N", "S", "T", "A", "L", "L", "E", "D", "_", "A", "P", "P", "S">>
PLACEHOLDER == <<"{", "{", "S", "E", "C", "R", "E", "T", "_", "K", "E", "Y", "}", "}">>
EQ_SP == <<" ", "=", " ">>

----------------------------------------------------------------------------
(* Python string operations.                                               *)

Min(S) == CHOOSE x \in S : \A y \in S : x <= y

\* s[i:].startswith(p), i counted from 1
IsPrefixAt(s, i, p) ==
    /\ i + Len(p) - 1 <= Len(s)
    /\ \A k \in 1..Len(p) : s[i + k - 1] = p[k]

\* p in s
Contains(s, p) == \E i \in 1..(Len(s) - Len(p) + 1) : IsPrefixAt(s, i, p)

\* s[i:].replace(old, new): every non-overlapping occurrence, left to right
RECURSIVE ReplaceFrom(_, _, _, _)
ReplaceFrom(s, i, old, new) ==
    LET occ == { j \in i..Len(s) : IsPrefixAt(s, j, old) } IN
    IF occ = {} THEN SubSeq(s, i, Len(s))
    ELSE SubSeq(s, i, Min(occ) - 1) \o new
         \o ReplaceFrom(s, Min(occ) + Len(old), old, new)

\* a str.replace that stops after the first occurrence (count=1)
StrReplaceFirst(s, old, new) ==
    LET occ == { j \in 1..Len(s) : IsPrefixAt(s, j, old) } IN
    IF occ = {} THEN s
    ELSE SubSeq(s, 1, Min(occ) - 1) \o new
         \o SubSeq(s, Min(occ) + Len(old), Len(s))

\* s.replace(old, new) (old is never empty here)
StrReplace(s, old, new) == ReplaceFrom(s, 1, old, new)

\* a name used as it was given
KeepName(name) == name

\* name.replace("-", "_")
SafeName(name) == StrReplace(name, <<"-">>, <<"_">>)

\* s[i:].splitlines()
RECURSIVE SplitFrom(_, _)
SplitFrom(s, i) ==
    LET brk == { j \in i..Len(s) : s[j] = NL } IN
    IF i > Len(s) THEN <<>>
    ELSE IF brk = {} THEN <<SubSeq(s, i, Len(s))>>
    ELSE <<SubSeq(s, i, Min(brk) - 1)>> \o SplitFrom(s, Min(brk) + 1)

\* s.splitlines(): the lines without their breaks, no empty last line
SplitLines(s) == SplitFrom(s, 1)

\* first index >= i that holds no blank (Len(t)+1 when there is none)
SkipSpaces(t, i) ==
    Min({ j \in i..(Len(t) + 1) : j > Len(t) \/ t[j] \notin Spaces })

\* line.strip().startswith(p): only the leading blanks matter
StripStartsWith(line, p) == IsPrefixAt(line, SkipSpaces(line, 1), p)

----------------------------------------------------------------------------
(* re.sub of the pattern  KW\s*=\s*["'].*?["']                             *)

\* .*?["'] from j: the index of the first quote, with no line break before
\* it ('.' does not match a line break); 0 when there is none
ClosingQuote(t, j) ==
    LET stop == { k \in j..Len(t) : t[k] \in Quotes \cup {NL} } IN
    IF stop = {} THEN 0
    ELSE IF t[Min(stop)] = NL THEN 0
    ELSE Min(stop)

\* the last index of the match of the pattern that starts at i, 0 when the
\* pattern does not match at i
MatchEnd(t, i, kw) ==
    IF ~IsPrefixAt(t, i, kw) THEN 0
    ELSE LET a == SkipSpaces(t, i + Len(kw)) IN
         IF a > Len(t) \/ t[a] # "=" THEN 0
         ELSE LET b == SkipSpaces(t, a + 1) IN
              IF b > Len(t) \/ t[b] \notin Quotes THEN 0
              ELSE ClosingQuote(t, b + 1)

\* re.sub on t[i:]
RECURSIVE SubFrom(_, _, _, _)
SubFrom(t, i, kw, repl) ==
    LET m == { j \in i..Len(t) : MatchEnd(t, j, kw) # 0 } IN
    IF m = {} THEN SubSeq(t, i, Len(t))
    ELSE SubSeq(t, i, Min(m) - 1) \o repl
         \o SubFrom(t, MatchEnd(t, Min(m), kw) + 1, kw, repl)

\* re.sub(pattern, repl, t, count=1)
ReSubFirst(kw, repl, t) ==
    LET m == { j \in 1..Len(t) : MatchEnd(t, j, kw) # 0 } IN
    IF m = {} THEN t
    ELSE SubSeq(t, 1, Min(m) - 1) \o repl
         \o SubSeq(t, MatchEnd(t, Min(m), kw) + 1, Len(t))

\* re.sub(pattern, repl, t): every non-overlapping match, left to right.
\* repl holds no backslash (names are drawn without one), so its template
\* expansion leaves it as it is.
ReSub(kw, repl, t) == SubFrom(t, 1, kw, repl)

\* f'ROOT_URLCONF = "{safe_project_name}.urls"'
ReplRoot(safe) == KW_ROOT \o EQ_SP \o <<DQ>> \o safe \o SUF_URLS \o <<DQ>>

\* f'WSGI_APPLICATION = "{safe_project_name}.wsgi.application"'
ReplWsgi(safe) == KW_WSGI \o EQ_SP \o <<DQ>> \o safe \o SUF_WSGI \o <<DQ>>

\* fix_project_references: the text written back to settings_path
fix_project_references(text, safe_project_name) ==
    ReSub(KW_WSGI, ReplWsgi(safe_project_name),
          ReSub(KW_ROOT, ReplRoot(safe_project_name), text))

----------------------------------------------------------------------------
(* add_app_to_settings                                                     *)

\* f"    '{app_name}',\n" without its line break
EntryLine(app) == <<" ", " ", " ", " ", "'">> \o app \o <<"'", ",">>

\* the for loop over content.splitlines(): new_content after lines k..
RECURSIVE ScanLines(_, _, _, _)
ScanLines(lines, k, in_installed, app) ==
    IF k > Len(lines) THEN <<>>
    ELSE LET line == lines[k]
             entered == in_installed \/ Contains(line, MARKER)
             closes == entered /\ StripStartsWith(line, <<"]">>)
         IN  (IF closes THEN EntryLine(app) \o <<NL>> ELSE <<>>)
             \o line \o <<NL>>
             \o ScanLines(lines, k + 1, entered /\ ~closes, app)

\* add_app_to_settings: the content of settings_path after the call
add_app_to_settings(content, app) ==
    IF Contains(content, app) THEN content
    ELSE ScanLines(SplitLines(content), 1, FALSE, app)

----------------------------------------------------------------------------
(* Inputs.                                                                 *)

\* project names: the display name and, for the properties, the safe name
\* it stands for
ProjectNames ==
    { [display |-> <<"M", "y", "-", "B", "l", "o", "g">>,
       safe    |-> <<"M", "y", "_", "B", "l", "o", "g">>],
      [display |-> <<"s", "h", "o", "p">>,
       safe    |-> <<"s", "h", "o", "p">>],
      [display |-> <<"a", "-", "b", "-", "c">>,
       safe    |-> <<"a", "_", "b", "_", "c">>] }

AppNames ==
    { [display |-> <<"b", "l", "o", "g">>,
       safe    |-> <<"b", "l", "o", "g">>],
      [display |-> <<"a", "u", "t", "h">>,
       safe    |-> <<"a", "u", "t", "h">>],
      [display |-> <<"m", "y", "-", "a", "p", "p">>,
       safe    |-> <<"m", "y", "_", "a", "p", "p">>] }

SafeOf(pool, name) == (CHOOSE r \in pool : r.display = name).safe

BoundedSeq(S, n) == UNION { [1..k -> S] : k \in 0..n }

RECURSIVE JoinLines(_)
JoinLines(ls) ==
    IF ls = <<>> THEN <<>>
    ELSE IF Len(ls) = 1 THEN ls[1]
    ELSE ls[1] \o <<NL>> \o JoinLines(Tail(ls))

SETTINGS == "settings.py"

Dir(files) == [exists |-> TRUE, files |-> files]
NoDir == [exists |-> FALSE, files |-> <<>>]
OneFile(name, content) == [n \in {name} |-> content]
Put(files, name, content) ==
    [n \in (DOMAIN files) \cup {name} |-> IF n = name THEN content ELSE files[n]]

----------------------------------------------------------------------------
(* Settings texts given to fix_project_references.  A statement is         *)
(*   lead kw head q1 val q2 tail                                           *)
(* kind "clean": NAME = "<value>" with a value free of quotes and line     *)
(* breaks, and nothing after it; "mixed": the value holds the other quote  *)
(* character (read here as val q2 tail without tail's closing quote);      *)
(* "odd": the pattern occurs but not as a one-line assignment; "none": the *)
(* pattern does not occur (the whole text is lead).                        *)

FixPool ==
    { \* ROOT_URLCONF = "old.urls"
      [kind |-> "clean", kw |-> "ROOT", lead |-> <<>>, head |-> EQ_SP, q1 |-> DQ,
       val |-> <<"o", "l", "d", ".", "u", "r", "l", "s">>, q2 |-> DQ, tail |-> <<>>],
      \* ROOT_URLCONF='x'
      [kind |-> "clean", kw |-> "ROOT", lead |-> <<>>, head |-> <<"=">>, q1 |-> SQ,
       val |-> <<"x">>, q2 |-> SQ, tail |-> <<>>],
      \* ROOT_URLCONF = "o'k"
      [kind |-> "mixed", kw |-> "ROOT", lead |-> <<>>, head |-> EQ_SP, q1 |-> DQ,
       val |-> <<"o">>, q2 |-> SQ, tail |-> <<"k", "\"">>],
      \* ROOT_URLCONF = (line break) "m"
      [kind |-> "odd", kw |-> "ROOT", lead |-> <<>>, head |-> <<" ", "=", "\n">>, q1 |-> DQ,
       val |-> <<"m">>, q2 |-> DQ, tail |-> <<>>],
      \* ROOT_URLCONF = "a (line break) b"
      [kind |-> "none", kw |-> "NONE",
       lead |-> KW_ROOT \o EQ_SP \o <<DQ, "a", NL, "b", DQ>>, head |-> <<>>, q1 |-> "",
       val |-> <<>>, q2 |-> "", tail |-> <<>>],
      \* WSGI_APPLICATION = "old.wsgi.application"
      [kind |-> "clean", kw |-> "WSGI", lead |-> <<>>, head |-> EQ_SP, q1 |-> DQ,
       val |-> <<"o", "l", "d">> \o SUF_WSGI, q2 |-> DQ, tail |-> <<>>],
      \* (indented) WSGI_APPLICATION = 'w'
      [kind |-> "clean", kw |-> "WSGI", lead |-> <<" ", " ">>, head |-> EQ_SP, q1 |-> SQ,
       val |-> <<"w">>, q2 |-> SQ, tail |-> <<>>],
      \* DEBUG = True
      [kind |-> "none", kw |-> "NONE",
       lead |-> <<"D", "E", "B", "U", "G", " ", "=", " ", "T", "r", "u", "e">>,
       head |-> <<>>, q1 |-> "", val |-> <<>>, q2 |-> "", tail |-> <<>>] }

Keyword(st) == IF st.kw = "ROOT" THEN KW_ROOT ELSE KW_WSGI

StmtText(st) ==
    IF st.kw = "NONE" THEN st.lead
    ELSE st.lead \o Keyword(st) \o st.head \o <<st.q1>> \o st.val \o <<st.q2>> \o st.tail

\* the settings text: the statements, one after the other, on their own lines
FixText(ss) == JoinLines([k \in 1..Len(ss) |-> StmtText(ss[k])])

----------------------------------------------------------------------------
(* Settings texts given to add_app_to_settings: lines, with or without a   *)
(* line break after the last one.                                          *)

LinePool ==
    { \* INSTALLED_APPS = [
      <<"I", "N", "S", "T", "A", "L", "L", "E", "D", "_", "A", "P", "P", "S", " ", "=", " ", "[">>,
      \*     'django.contrib.auth',
      <<" ", " ", " ", " ", "'", "d", "j", "a", "n", "g", "o", ".", "c", "o", "n", "t", "r", "i", "b", ".", "a", "u", "t", "h", "'", ",">>,
      \* ]
      <<"]">>,
      \*     ]
      <<" ", " ", " ", " ", "]">>,
      \* MIDDLEWARE = [
      <<"M", "I", "D", "D", "L", "E", "W", "A", "R", "E", " ", "=", " ", "[">>,
      \* # see INSTALLED_APPS
      <<"#", " ", "s", "e", "e", " ", "I", "N", "S", "T", "A", "L", "L", "E", "D", "_", "A", "P", "P", "S">> }

AppText(in) ==
    JoinLines(in.lines) \o (IF in.trailing THEN <<NL>> ELSE <<>>)

----------------------------------------------------------------------------
(* Drivers of the two patchers: the settings file is patched in place,     *)
(* again and again.                                                        *)

\* what the drivers leave alone
Idle ==
    /\ preset = "base"
    /\ install = FALSE
    /\ presets = <<>>
    /\ calls = <<>>
    /\ exit_status = -1
    /\ out = <<>>
    /\ secret = <<>>
    /\ passes = 0

InitFix ==
    /\ Idle
    /\ pc = "fix"
    /\ project_name \in { r.display : r \in ProjectNames }
    /\ app_name = <<>>
    /\ stmts \in BoundedSeq(FixPool, MaxStmts)
    /\ root = Dir(OneFile(SETTINGS, FixText(stmts)))
    /\ root0 = root

\* fix_project_references(target_settings, safe_project_name), with the
\* safe name project() derives
FixPass ==
    /\ pc = "fix"
    /\ passes < MaxPasses
    /\ root' = Dir(Put(root.files, SETTINGS,
                       fix_project_references(root.files[SETTINGS],
                                              SafeName(project_name))))
    /\ passes' = passes + 1
    /\ UNCHANGED <<pc, project_name, app_name, preset, install, presets, root0,
                   calls, exit_status, out, secret, stmts>>

SpecFix == InitFix /\ [][FixPass]_vars

InitApp ==
    /\ Idle
    /\ pc = "app"
    /\ project_name = <<>>
    /\ app_name \in { r.display : r \in AppNames }
    /\ stmts \in { [lines |-> ls, trailing |-> tr] :
                     ls \in BoundedSeq(LinePool, MaxLines), tr \in BOOLEAN }
    /\ stmts.lines = <<>> => ~stmts.trailing
    /\ root = Dir(OneFile(SETTINGS, AppText(stmts)))
    /\ root0 = root

\* add_app_to_settings(target_settings, safe_app_name), with the safe name
\* project() derives
AppPass ==
    /\ pc = "app"
    /\ passes < MaxPasses
    /\ root' = Dir(Put(root.files, SETTINGS,
                       add_app_to_settings(root.files[SETTINGS],
                                           SafeName(app_name))))
    /\ passes' = passes + 1
    /\ UNCHANGED <<pc, project_name, app_name, preset, install, presets, root0,
                   calls, exit_status, out, secret, stmts>>

SpecApp == InitApp /\ [][AppPass]_vars

----------------------------------------------------------------------------
(* The `project` command.                                                  *)

\* file names under project_root; SETTINGS stands for
\* <safe_project_name>/settings.py and APP_DIR for <safe_app_name>/
MANAGE == "manage.py"
APP_DIR == "app/"
MANIFEST == "requirements.txt"
ENV == ".env"
ENV_TEMPLATE == ".env.template"
README == "README.md"

ALLOWED_PRESET_FILES == {MANIFEST}

LINE_APPS == <<"I", "N", "S", "T", "A", "L", "L", "E", "D", "_", "A", "P", "P", "S", " ", "=", " ", "[">>
LINE_AUTH == <<" ", " ", " ", " ", "'", "d", "j", "a", "n", "g", "o", ".", "c", "o", "n", "t", "r", "i", "b", ".", "a", "u", "t", "h", "'", ",">>
LINE_CLOSE == <<"]">>

\* the settings.py that django-admin startproject <name> . writes
SkeletonSettings(name) ==
    JoinLines(<< LINE_APPS, LINE_AUTH, LINE_CLOSE,
                 KW_ROOT \o EQ_SP \o <<SQ>> \o name \o SUF_URLS \o <<SQ>>,
                 KW_WSGI \o EQ_SP \o <<SQ>> \o name \o SUF_WSGI \o <<SQ>> >>)
    \o <<NL>>

\* a preset's settings.py, written for a project called "old"
PresetSettings ==
    JoinLines(<< LINE_APPS, LINE_AUTH, LINE_CLOSE,
                 KW_ROOT \o EQ_SP \o <<DQ, "o", "l", "d">> \o SUF_URLS \o <<DQ>>,
                 KW_WSGI \o EQ_SP \o <<DQ, "o", "l", "d">> \o SUF_WSGI \o <<DQ>> >>)
    \o <<NL>>

ManifestText == <<"D", "j", "a", "n", "g", "o", ">", "=", "4", ".", "2", NL>>

\* segments an environment template is put together from
EnvPool ==
    { PLACEHOLDER,
      <<"S", "E", "C", "R", "E", "T", "_", "K", "E", "Y", "=">>,
      <<"{">>,
      <<"}">> }

RECURSIVE Concat(_)
Concat(segs) == IF segs = <<>> THEN <<>> ELSE Head(segs) \o Concat(Tail(segs))

\* values get_random_secret_key() may return: non-empty, over
\* a-z 0-9 !@#$%^&*(-_=+)
SecretKeys == { <<"k", "9">>, <<"x", "=", "_", "!">> }

\* how a subprocess.run ends: exit status 0, exit status non-zero, or the
\* executable cannot be started (OSError)
Outcomes == {"ok", "nonzero", "oserror"}

\* the files of a preset directory
PresetFiles(withSettings, withManifest, withEnv, segs) ==
    [n \in {README} \cup (IF withSettings THEN {SETTINGS} ELSE {})
                    \cup (IF withManifest THEN {MANIFEST} ELSE {})
                    \cup (IF withEnv THEN {ENV_TEMPLATE} ELSE {})
       |-> IF n = SETTINGS THEN PresetSettings
           ELSE IF n = MANIFEST THEN ManifestText
           ELSE IF n = ENV_TEMPLATE THEN Concat(segs)
           ELSE <<"#">>]

Init ==
    /\ pc = "check_preset"
    /\ project_name \in { r.display : r \in ProjectNames }
    /\ app_name \in { r.display : r \in AppNames }
    /\ preset \in {"base", "nope"}
    /\ install \in BOOLEAN
    /\ \E withSettings \in BOOLEAN, withManifest \in BOOLEAN, withEnv \in BOOLEAN :
         /\ stmts \in BoundedSeq(EnvPool, MaxEnvSegs)
         /\ ~withEnv => stmts = <<>>
         /\ presets = [p \in {"base"} |->
                         PresetFiles(withSettings, withManifest, withEnv, stmts)]
    /\ root0 \in { NoDir, Dir(<<>>), Dir(OneFile(ENV, <<"x">>)) }
    /\ root = root0
    /\ calls = <<>>
    /\ exit_status = -1
    /\ out = <<>>
    /\ secret = <<>>
    /\ passes = 0

\* raise SystemExit(1), or an exception nobody catches
Abort ==
    /\ exit_status' = 1
    /\ pc' = "exited"

\* lines 63-68 without the existence test
CheckPresetNoTest ==
    /\ pc = "check_preset"
    /\ out' = Append(out, "starting")
    /\ pc' = "prepare_root"
    /\ UNCHANGED <<project_name, app_name, preset, install, presets, root, root0,
                   calls, secret, stmts, passes, exit_status>>

\* lines 63-68
CheckPreset ==
    /\ pc = "check_preset"
    /\ \/ /\ preset \notin DOMAIN presets
          /\ out' = out \o <<"starting", "preset_not_found">>
          /\ Abort
       \/ /\ preset \in DOMAIN presets
          /\ out' = Append(out, "starting")
          /\ pc' = "prepare_root"
          /\ UNCHANGED exit_status
    /\ UNCHANGED <<project_name, app_name, preset, install, presets, root, root0,
                   calls, secret, stmts, passes>>

\* a test that lets every directory through
NeverNotEmpty(dir) == FALSE

\* project_root.exists() and any(project_root.iterdir())
NotEmpty(dir) == dir.exists /\ DOMAIN dir.files # {}

\* lines 71-81
PrepareRoot ==
    /\ pc = "prepare_root"
    /\ \/ /\ NotEmpty(root)
          /\ out' = Append(out, "dir_not_empty")
          /\ Abort
          /\ UNCHANGED root
       \/ /\ ~NotEmpty(root)
          /\ root' = Dir(root.files)
          /\ pc' = "startproject"
          /\ UNCHANGED <<out, exit_status>>
    /\ UNCHANGED <<project_name, app_name, preset, install, presets, root0,
                   calls, secret, stmts, passes>>

\* a generator run as if with check=False
GeneratorFailsUnchecked(outcome) == outcome = "oserror"

\* subprocess.run(..., check=True) of a generator: a non-zero exit raises
\* CalledProcessError, an executable that cannot be started raises OSError
GeneratorFails(outcome) == outcome # "ok"

\* lines 84-90
StartProject ==
    /\ pc = "startproject"
    /\ \E outcome \in Outcomes :
         /\ calls' = Append(calls, [cmd |-> "startproject",
                                    arg |-> SafeName(project_name),
                                    outcome |-> outcome])
         /\ \/ /\ GeneratorFails(outcome)
               /\ Abort
               /\ UNCHANGED root
            \/ /\ ~GeneratorFails(outcome)
               /\ root' = Dir(Put(Put(root.files, MANAGE, <<>>), SETTINGS,
                                  SkeletonSettings(SafeName(project_name))))
               /\ pc' = "overlay"
               /\ UNCHANGED exit_status
    /\ UNCHANGED <<project_name, app_name, preset, install, presets, root0,
                   out, secret, stmts, passes>>

\* lines 93-100
OverlaySettings ==
    /\ pc = "overlay"
    /\ \/ /\ SETTINGS \in DOMAIN presets[preset]
          /\ root' = Dir(Put(root.files, SETTINGS,
                             fix_project_references(presets[preset][SETTINGS],
                                                    SafeName(project_name))))
       \/ /\ SETTINGS \notin DOMAIN presets[preset]
          /\ UNCHANGED root
    /\ pc' = "startapp"
    /\ UNCHANGED <<project_name, app_name, preset, install, presets, root0,
                   calls, exit_status, out, secret, stmts, passes>>

\* lines 103-107
StartApp ==
    /\ pc = "startapp"
    /\ \E outcome \in Outcomes :
         /\ calls' = Append(calls, [cmd |-> "startapp",
                                    arg |-> SafeName(app_name),
                                    outcome |-> outcome])
         /\ \/ /\ GeneratorFails(outcome)
               /\ Abort
               /\ UNCHANGED root
            \/ /\ ~GeneratorFails(outcome)
               /\ root' = Dir(Put(root.files, APP_DIR, SafeName(app_name)))
               /\ pc' = "register"
               /\ UNCHANGED exit_status
    /\ UNCHANGED <<project_name, app_name, preset, install, presets, root0,
                   out, secret, stmts, passes>>

\* line 110
RegisterApp ==
    /\ pc = "register"
    /\ root' = Dir(Put(root.files, SETTINGS,
                       add_app_to_settings(root.files[SETTINGS],
                                           SafeName(app_name))))
    /\ pc' = "copy"
    /\ UNCHANGED <<project_name, app_name, preset, install, presets, root0,
                   calls, exit_status, out, secret, stmts, passes>>

\* lines 113-117: project_root after the loop over preset_path.iterdir()
CopyAllowed(files, presetFiles) ==
    [n \in (DOMAIN files) \cup ((DOMAIN presetFiles) \cap ALLOWED_PRESET_FILES)
       |-> IF n \in (DOMAIN presetFiles) \cap ALLOWED_PRESET_FILES
           THEN presetFiles[n] ELSE files[n]]

CopyManifest ==
    /\ pc = "copy"
    /\ root' = Dir(CopyAllowed(root.files, presets[preset]))
    /\ pc' = "env"
    /\ UNCHANGED <<project_name, app_name, preset, install, presets, root0,
                   calls, exit_status, out, secret, stmts, passes>>

\* only the first placeholder is filled in
EnvContentFirstOnly(template, key) == StrReplaceFirst(template, PLACEHOLDER, key)

\* template_env.read_text().replace("{{SECRET_KEY}}", get_random_secret_key())
EnvContent(template, key) == StrReplace(template, PLACEHOLDER, key)

\* lines 120-127
MaterializeEnv ==
    /\ pc = "env"
    /\ \/ /\ ENV_TEMPLATE \in DOMAIN presets[preset]
          /\ \E key \in SecretKeys :
               /\ secret' = key
               /\ root' = Dir(Put(root.files, ENV,
                                  EnvContent(presets[preset][ENV_TEMPLATE], key)))
       \/ /\ ENV_TEMPLATE \notin DOMAIN presets[preset]
          /\ UNCHANGED <<root, secret>>
    /\ pc' = "install"
    /\ UNCHANGED <<project_name, app_name, preset, install, presets, root0,
                   calls, exit_status, out, stmts, passes>>

\* how pip install -r requirements.txt may end, run from project_root
PipOutcomes(files) ==
    IF MANIFEST \in DOMAIN files THEN Outcomes ELSE Outcomes \ {"ok"}

\* subprocess.run(..., check=False) of the installer: a non-zero exit is
\* ignored, an executable that cannot be started still raises OSError
InstallerFails(outcome) == outcome = "oserror"

\* lines 130-135
Install ==
    /\ pc = "install"
    /\ \/ /\ install
          /\ \E outcome \in PipOutcomes(root.files) :
               /\ calls' = Append(calls, [cmd |-> "pip",
                                          arg |-> <<>>,
                                          outcome |-> outcome])
               /\ \/ /\ InstallerFails(outcome)
                     /\ Abort
                  \/ /\ ~InstallerFails(outcome)
                     /\ pc' = "finish"
                     /\ UNCHANGED exit_status
       \/ /\ ~install
          /\ pc' = "finish"
          /\ UNCHANGED <<calls, exit_status>>
    /\ UNCHANGED <<project_name, app_name, preset, install, presets, root, root0,
                   out, secret, stmts, passes>>

\* line 137, and the return to the shell
Finish ==
    /\ pc = "finish"
    /\ out' = Append(out, "ready")
    /\ exit_status' = 0
    /\ pc' = "exited"
    /\ UNCHANGED <<project_name, app_name, preset, install, presets, root, root0,
                   calls, secret, stmts, passes>>

Next ==
    \/ CheckPreset
    \/ PrepareRoot
    \/ StartProject
    \/ OverlaySettings
    \/ StartApp
    \/ RegisterApp
    \/ CopyManifest
    \/ MaterializeEnv
    \/ Install
    \/ Finish

Spec == Init /\ [][Next]_vars

----------------------------------------------------------------------------
(* Properties of the `project` command (specification Spec).               *)

Exited == pc = "exited"
PresetExists == preset \in DOMAIN presets
SafeProject == SafeOf(ProjectNames, project_name)
SafeApp == SafeOf(AppNames, app_name)
Called(cmd) == \E i \in 1..Len(calls) : calls[i].cmd = cmd
ExitedNonZero(cmd) ==
    \E i \in 1..Len(calls) : calls[i].cmd = cmd /\ calls[i].outcome = "nonzero"

\* C1: when the preset does not exist under the presets root, the run ends
\* at its first step with exit status 1 and the "not found" message, the
\* target directory is as it was (not created) and no subprocess was run.
C1_PresetNotFound ==
    ~PresetExists =>
        /\ root = root0
        /\ calls = <<>>
        /\ pc # "check_preset" =>
               /\ Exited
               /\ exit_status = 1
               /\ out = <<"starting", "preset_not_found">>

C1_Witness ==
    /\ Exited
    /\ ~PresetExists
    /\ ~root0.exists
    /\ ~root.exists
    /\ exit_status = 1

\* C2: with an existing preset and a target directory that exists and holds
\* at least one entry, the run fails with exit status 1, the directory's
\* entries and contents are the same before and after, and no subprocess
\* was run.
C2_NonEmptyTarget ==
    (PresetExists /\ root0.exists /\ DOMAIN root0.files # {}) =>
        /\ root = root0
        /\ calls = <<>>
        /\ pc \notin {"check_preset", "prepare_root"} =>
               /\ Exited
               /\ exit_status = 1
               /\ out = <<"starting", "dir_not_empty">>

C2_Witness ==
    /\ Exited
    /\ PresetExists
    /\ root0.exists
    /\ ENV \in DOMAIN root0.files
    /\ root = root0
    /\ exit_status = 1

\* the settings file after the overlay step, spelled out
ExpectedBeforeRegistration ==
    IF SETTINGS \in DOMAIN presets[preset]
    THEN JoinLines(<< LINE_APPS, LINE_AUTH, LINE_CLOSE,
                      KW_ROOT \o EQ_SP \o <<DQ>> \o SafeProject \o SUF_URLS \o <<DQ>>,
                      KW_WSGI \o EQ_SP \o <<DQ>> \o SafeProject \o SUF_WSGI \o <<DQ>> >>)
         \o <<NL>>
    ELSE JoinLines(<< LINE_APPS, LINE_AUTH, LINE_CLOSE,
                      KW_ROOT \o EQ_SP \o <<SQ>> \o SafeProject \o SUF_URLS \o <<SQ>>,
                      KW_WSGI \o EQ_SP \o <<SQ>> \o SafeProject \o SUF_WSGI \o <<SQ>> >>)
         \o <<NL>>

\* C5: when the project generator or the app generator exits non-zero, the
\* run has ended right there with exit status 1: no later step has acted
\* (no overlay, app registration, manifest, environment file, installer or
\* success message after it) and what was created before is still on disk.
C5_GeneratorFailureAborts ==
    /\ ExitedNonZero("startproject") =>
           /\ Exited
           /\ exit_status = 1
           /\ Len(calls) = 1
           /\ root = Dir(<<>>)
           /\ secret = <<>>
           /\ out = <<"starting">>
    /\ ExitedNonZero("startapp") =>
           /\ Exited
           /\ exit_status = 1
           /\ Len(calls) = 2
           /\ root.exists
           /\ DOMAIN root.files = {MANAGE, SETTINGS}
           /\ root.files[SETTINGS] = ExpectedBeforeRegistration
           /\ secret = <<>>
           /\ out = <<"starting">>

C5_Witness ==
    /\ ExitedNonZero("startapp")
    /\ Exited
    /\ root.exists
    /\ ~root0.exists
    /\ SETTINGS \in DOMAIN presets[preset]
    /\ SETTINGS \in DOMAIN root.files

\* C6: with --install given and every earlier step successful, however the
\* installer step ends (non-zero exit, no manifest, installer not
\* startable), the run prints its success message and exits with status 0.
C6_InstallFailureNonFatal ==
    (Exited /\ install /\ Called("pip")) =>
        /\ exit_status = 0
        /\ out = <<"starting", "ready">>

\* the environment file the template stands for: each placeholder segment
\* replaced by the generated value
ExpectedEnv ==
    Concat([k \in 1..Len(stmts) |->
              IF stmts[k] = PLACEHOLDER THEN secret ELSE stmts[k]])

\* C7: after a successful run with a preset that has an environment
\* template, the environment file holds no placeholder, holds the non-empty
\* generated value wherever a placeholder stood and is otherwise the
\* template; without a template the run never creates or changes the
\* environment file.
C7_EnvironmentFile ==
    /\ (Exited /\ exit_status = 0 /\ ENV_TEMPLATE \in DOMAIN presets[preset]) =>
           /\ ENV \in DOMAIN root.files
           /\ secret # <<>>
           /\ ~Contains(root.files[ENV], PLACEHOLDER)
           /\ root.files[ENV] = ExpectedEnv
    /\ (~PresetExists \/ ENV_TEMPLATE \notin DOMAIN presets[preset]) =>
           /\ ENV \in DOMAIN root.files <=> ENV \in DOMAIN root0.files
           /\ ENV \in DOMAIN root.files => root.files[ENV] = root0.files[ENV]

C7_Witness ==
    /\ Exited
    /\ exit_status = 0
    /\ ENV_TEMPLATE \in DOMAIN presets[preset]
    /\ Contains(presets[preset][ENV_TEMPLATE], PLACEHOLDER)
    /\ Len(presets[preset][ENV_TEMPLATE]) > Len(PLACEHOLDER)
    /\ Contains(root.files[ENV], secret)

\* a line that closes a list
IsCloser(line) == StripStartsWith(line, <<"]">>)

\* app is its own quoted entry inside the INSTALLED_APPS list of text
EntryInList(text, app) ==
    LET ls == SplitLines(text) IN
    \E m \in 1..Len(ls), k \in 1..Len(ls), c \in 1..Len(ls) :
        /\ m < k /\ k < c
        /\ Contains(ls[m], MARKER)
        /\ \A j \in m..(c - 1) : ~IsCloser(ls[j])
        /\ IsCloser(ls[c])
        /\ \E q \in Quotes :
             SubSeq(ls[k], SkipSpaces(ls[k], 1), Len(ls[k])) = <<q>> \o app \o <<q, ",">>

\* C10: after every successful run the safe app name is its own quoted
\* entry inside the INSTALLED_APPS list of the project's settings file.
C10_AppRegistered ==
    (Exited /\ exit_status = 0) => EntryInList(root.files[SETTINGS], SafeApp)

----------------------------------------------------------------------------
(* Properties of fix_project_references (specification SpecFix).           *)

SettingsText == root.files[SETTINGS]

\* NAME = "<safe name><suffix>", spelled out
NewAssignment(st) ==
    Keyword(st) \o <<" ", "=", " ", DQ>> \o SafeProject
    \o (IF st.kw = "ROOT" THEN SUF_URLS ELSE SUF_WSGI) \o <<DQ>>

HasBoth(ss) ==
    /\ \E k \in 1..Len(ss) : ss[k].kw = "ROOT"
    /\ \E k \in 1..Len(ss) : ss[k].kw = "WSGI"

\* every assignment replaced as a whole by NAME = "<safe name><suffix>"
AssignmentsRewritten(ss) ==
    JoinLines([k \in 1..Len(ss) |->
                 IF ss[k].kw = "NONE" THEN ss[k].lead
                 ELSE ss[k].lead \o NewAssignment(ss[k])])

\* C3 as stated: whatever the prior values of the ROOT_URLCONF and
\* WSGI_APPLICATION assignments (here also values holding a quote
\* character), after fix_project_references each assignment reads exactly
\* NAME = "<safe name>.urls" / "<safe name>.wsgi.application", and a second
\* call changes nothing.
C3_AnyPriorValue ==
    (/\ passes >= 1
     /\ HasBoth(stmts)
     /\ \A k \in 1..Len(stmts) : stmts[k].kind \in {"clean", "mixed", "none"}) =>
        /\ SettingsText = AssignmentsRewritten(stmts)
        /\ fix_project_references(SettingsText, SafeProject) = SettingsText

\* C3 (amended): when each ROOT_URLCONF and WSGI_APPLICATION assignment is
\* on one line with a prior value free of quote characters, after
\* fix_project_references each reads exactly NAME = "<safe name>.urls" /
\* "<safe name>.wsgi.application" with the safe name (never the display
\* name), the rest of the text is as it was, and further calls change
\* nothing.
C3_SafeNameReferences ==
    (/\ passes >= 1
     /\ HasBoth(stmts)
     /\ \A k \in 1..Len(stmts) : stmts[k].kind \in {"clean", "none"}) =>
        /\ SettingsText = AssignmentsRewritten(stmts)
        /\ project_name # SafeProject => ~Contains(SettingsText, project_name)
        /\ fix_project_references(SettingsText, SafeProject) = SettingsText

C3_Witness ==
    /\ passes = 2
    /\ HasBoth(stmts)
    /\ \A k \in 1..Len(stmts) : stmts[k].kind \in {"clean", "none"}
    /\ project_name # SafeProject
    /\ SettingsText # root0.files[SETTINGS]
    /\ Contains(SettingsText, <<DQ>> \o SafeProject \o SUF_URLS \o <<DQ>>)
    /\ Contains(SettingsText, <<DQ>> \o SafeProject \o SUF_WSGI \o <<DQ>>)

\* the statements in which the pattern of kw occurs
Occurrences(ss, kw) == { k \in 1..Len(ss) : ss[k].kw = kw }

\* only the first occurrence of each pattern rewritten
FirstRewritten(ss) ==
    JoinLines([k \in 1..Len(ss) |->
                 IF ss[k].kw # "NONE" /\ k = Min(Occurrences(ss, ss[k].kw))
                 THEN ss[k].lead \o NewAssignment(ss[k]) \o ss[k].tail
                 ELSE StmtText(ss[k])])

\* every occurrence of each pattern rewritten
AllRewritten(ss) ==
    JoinLines([k \in 1..Len(ss) |->
                 IF ss[k].kw # "NONE"
                 THEN ss[k].lead \o NewAssignment(ss[k]) \o ss[k].tail
                 ELSE StmtText(ss[k])])

\* C9 as stated: one call of fix_project_references rewrites only the
\* first occurrence of each pattern; later occurrences keep their prior
\* value and a pattern that is absent changes nothing.
C9_FirstMatchOnly ==
    passes = 1 => SettingsText = FirstRewritten(stmts)

\* C9 (amended): one call of fix_project_references rewrites every
\* occurrence of each pattern, leaves the text outside the matches as it
\* was, and changes nothing for a pattern that is absent.
C9_EveryMatch ==
    passes = 1 => SettingsText = AllRewritten(stmts)

C9_Witness ==
    /\ passes = 1
    /\ Cardinality(Occurrences(stmts, "ROOT")) >= 2
    /\ \E j \in Occurrences(stmts, "ROOT"), k \in Occurrences(stmts, "ROOT") :
         j < k /\ stmts[j].val # stmts[k].val
    /\ Occurrences(stmts, "WSGI") = {}
    /\ SettingsText = AllRewritten(stmts)
    /\ SettingsText # FirstRewritten(stmts)

----------------------------------------------------------------------------
(* Properties of add_app_to_settings (specification SpecApp).              *)

Markers(ls) == { m \in 1..Len(ls) : Contains(ls[m], MARKER) }

\* the closing lines at or after the first marker line
Closers(ls) == { c \in 1..Len(ls) : c >= Min(Markers(ls)) /\ IsCloser(ls[c]) }

HasBlock(ls) == Markers(ls) # {} /\ Closers(ls) # {}

InsertBefore(ls, c, line) ==
    SubSeq(ls, 1, c - 1) \o <<line>> \o SubSeq(ls, c, Len(ls))

CountOf(s, p) == Cardinality({ i \in 1..Len(s) : IsPrefixAt(s, i, p) })

\* C8: one call on a text without the app name and with a registration
\* block has exactly one insertion point: the entry line is inserted just
\* before the first closing line after the first marker line, and no other
\* line is inserted, also when markers or closing lines occur several times.
C8_SingleInsertionPoint ==
    (/\ passes = 1
     /\ ~Contains(AppText(stmts), SafeApp)
     /\ HasBlock(stmts.lines)) =>
        SplitLines(SettingsText) =
            InsertBefore(stmts.lines, Min(Closers(stmts.lines)), EntryLine(SafeApp))

\* C4: after one call on a text without the app name (and with a
\* registration block) the app name occurs exactly once, inside the
\* INSTALLED_APPS list, and further calls leave the file byte-identical.
C4_RegisteredOnce ==
    (/\ passes >= 1
     /\ ~Contains(AppText(stmts), SafeApp)
     /\ HasBlock(stmts.lines)) =>
        /\ CountOf(SettingsText, SafeApp) = 1
        /\ EntryInList(SettingsText, SafeApp)
        /\ add_app_to_settings(SettingsText, SafeApp) = SettingsText

====
